---- MODULE Spec2Model ----
(***************************************************************************)
(* llm-primitives-rs: the primitives of src/src/lib.rs (classify,          *)
(* binary_classify, generate_text, score_int, score_float, parse), the     *)
(* chat backend generate_message they share, and the choice codec          *)
(* display_choices / index_to_alpha.                                       *)
(*                                                                         *)
(* One primitive call is modelled from its entry to its end.  The call     *)
(* ends with Ok(v), with Err(e), or with a panic that unwinds out of the   *)
(* call.  The reply of the remote endpoint is an input of the call.        *)
(***************************************************************************)
EXTENDS Integers, Sequences, FiniteSets, TLC

VARIABLES
    overflow_checks,   \* the build: TRUE = arithmetic overflow panics, FALSE = it wraps
    model,             \* OpenAIModel.model
    api_key,           \* OpenAIModel.api_key
    op,                \* the primitive being called
    args,              \* its arguments
    backend,           \* what the endpoint does with a request of this call
    pc,                \* position of the call
    choices,           \* display_choices: the choice list
    i,                 \* display_choices: the enumerate() counter
    choices_displays,  \* display_choices: the "LABEL. choice" lines
    decode_map,        \* display_choices: label -> index, a set of <<label, index>>
    index,             \* index_to_alpha: the usize `index`, as limbs
    alpha,             \* index_to_alpha: the String `alpha`, as a sequence of letters
    iters,             \* index_to_alpha: loop iterations taken in this invocation
    options,           \* the GenerateMessageOptions of the call
    requests,          \* the request bodies posted to the chat endpoint, in order
    reply,             \* what generate_message returned to the primitive
    result,            \* what the primitive returned to its caller
    cur,               \* the call whose locals the variables above hold
    parked             \* the locals of the other calls on the same facade

vars == <<overflow_checks, model, api_key, op, args, backend, pc, choices, i,
          choices_displays, decode_map, index, alpha, iters, options, requests, reply,
          result, cur, parked>>

-----------------------------------------------------------------------------
(* usize on a 64-bit target: four 16-bit limbs, least significant first.   *)

LimbBase == 65536

USizeZero == <<0, 0, 0, 0>>

USizeMax == <<LimbBase - 1, LimbBase - 1, LimbBase - 1, LimbBase - 1>>

\* n as usize, for 0 <= n < 2^31
USize(n) == <<n % LimbBase, n \div LimbBase, 0, 0>>

\* index / 26
USizeDiv26(u) ==
    LET t4 == u[4]
        t3 == (t4 % 26) * LimbBase + u[3]
        t2 == (t3 % 26) * LimbBase + u[2]
        t1 == (t2 % 26) * LimbBase + u[1]
    IN  <<t1 \div 26, t2 \div 26, t3 \div 26, t4 \div 26>>

\* index % 26
USizeMod26(u) ==
    LET t4 == u[4]
        t3 == (t4 % 26) * LimbBase + u[3]
        t2 == (t3 % 26) * LimbBase + u[2]
        t1 == (t2 % 26) * LimbBase + u[1]
    IN  t1 % 26

\* u - 1 for u > 0
USizeDec(u) ==
    IF u[1] > 0 THEN <<u[1] - 1, u[2], u[3], u[4]>>
    ELSE IF u[2] > 0 THEN <<LimbBase - 1, u[2] - 1, u[3], u[4]>>
    ELSE IF u[3] > 0 THEN <<LimbBase - 1, LimbBase - 1, u[3] - 1, u[4]>>
    ELSE <<LimbBase - 1, LimbBase - 1, LimbBase - 1, u[4] - 1>>

-----------------------------------------------------------------------------
(* index_to_alpha, lib.rs 568-578                                          *)

Alphabet == <<"A", "B", "C", "D", "E", "F", "G", "H", "I", "J", "K", "L", "M",
              "N", "O", "P", "Q", "R", "S", "T", "U", "V", "W", "X", "Y", "Z">>

\* ('A' as u8 + (index % 26) as u8) as char
Letter(d) == Alphabet[d + 1]

\* format!("{}{}", ch, alpha)
Prepend(ch, a) == <<ch>> \o a

\* What `index / 26 - 1` evaluates to: a usize, or the overflow panic of a build
\* with overflow checks, or the wrapped value of a build without them.
SubOne(u, checks) ==
    IF u # USizeZero THEN [t |-> "Value", v |-> USizeDec(u)]
    ELSE IF checks THEN [t |-> "Panic"]
    ELSE [t |-> "Value", v |-> USizeMax]

-----------------------------------------------------------------------------
(* Option, Result and panics                                               *)

None == [t |-> "None"]

Some(v) == [t |-> "Some", v |-> v]

Ok(v) == [t |-> "Ok", v |-> v]

Err(e) == [t |-> "Err", e |-> e]

\* the call was aborted by a panic unwinding out of it
Panic(why) == [t |-> "Panic", why |-> why]

Pending == [t |-> "Pending"]

Range(s) == {s[k] : k \in DOMAIN s}

-----------------------------------------------------------------------------
(* Error messages.  A message is the sequence of the pieces format! puts    *)
(* together: literal text, an HTTP status, a response body, a label, the    *)
(* Display of an underlying error.                                         *)

Lit(s) == [lit |-> s]

StatusPiece(code) == [status |-> code]

BodyPiece(text) == [body |-> text]

LabelPiece(l) == [label |-> l]

CausePiece(c) == [cause |-> c]

\* lib.rs 635-643: impl Display for ChatError
ChatErrorDisplay(e) == <<Lit("ChatError: ")>> \o e.message

ChatError(message) == [kind |-> "ChatError", message |-> message]

ClassifyError(message) == [kind |-> "ClassifyError", message |-> message]

GenerateTextError(message) == [kind |-> "GenerateTextError", message |-> message]

ScoreFloatError(message) == [kind |-> "ScoreFloatError", message |-> message]

ScoreIntError(message) == [kind |-> "ScoreIntError", message |-> message]

ParseError(message) == [kind |-> "ParseError", message |-> message]

-----------------------------------------------------------------------------
(* serde_json::Value and Number, as lib.rs uses them                       *)

JNull == [t |-> "Null"]

JBool(b) == [t |-> "Bool", b |-> b]

\* a JSON string; label-like strings are sequences of letters
JString(s) == [t |-> "String", s |-> s]

JArray(a) == [t |-> "Array", a |-> a]

\* a JSON object: m is a function from its keys
JObject(m) == [t |-> "Object", m |-> m]

\* Number is one of PosInt(u64), NegInt(i64), Float(f64).  An integer literal
\* parses to PosInt or NegInt, a literal with a fraction or an exponent to Float.
PosInt(u) == [t |-> "Number", n |-> "PosInt", u |-> u]

NegInt(v) == [t |-> "Number", n |-> "NegInt", v |-> v]

\* f64 as mant * 2^exp with mant odd (or 0): 4.5 = 9 * 2^-1, 4.0 = 1 * 2^2
F64(mant, exp) == [mant |-> mant, exp |-> exp]

Float(f) == [t |-> "Number", n |-> "Float", f |-> f]

\* the value of a u64 that TLC's integers can hold
LimbsToInt(u) == u[1] + LimbBase * (u[2] + LimbBase * (u[3] + LimbBase * u[4]))

\* u <= i64::MAX as u64
FitsI64(u) == u[4] < LimbBase \div 2

\* u >> 1
Shr1(u) ==
    <<(u[1] \div 2) + (u[2] % 2) * (LimbBase \div 2),
      (u[2] \div 2) + (u[3] % 2) * (LimbBase \div 2),
      (u[3] \div 2) + (u[4] % 2) * (LimbBase \div 2),
      u[4] \div 2>>

RECURSIVE F64OfU64(_, _)
\* u as f64 (exact while the odd part of u has at most 31 bits)
F64OfU64(u, e) ==
    IF u = USizeZero THEN F64(0, 0)
    ELSE IF u[1] % 2 = 1 THEN F64(LimbsToInt(u), e)
    ELSE F64OfU64(Shr1(u), e + 1)

RECURSIVE F64OfNat(_, _)
F64OfNat(n, e) ==
    IF n = 0 THEN F64(0, 0)
    ELSE IF n % 2 = 1 THEN F64(n, e)
    ELSE F64OfNat(n \div 2, e + 1)

\* v as f64 for a negative i64
F64OfNeg(v) == LET p == F64OfNat(0 - v, 0) IN F64(0 - p.mant, p.exp)

RECURSIVE Pow2(_)
\* 2^k
Pow2(k) == IF k = 0 THEN 1 ELSE 2 * Pow2(k - 1)

\* as_i64 as it would be were a Float truncated to an integer (as_f64() as i64)
as_i64_truncating(val) ==
    IF val.t # "Number" THEN None
    ELSE IF val.n = "PosInt"
         THEN IF FitsI64(val.u) THEN Some(LimbsToInt(val.u)) ELSE None
         ELSE IF val.n = "NegInt" THEN Some(val.v)
         ELSE IF val.f.exp >= 0 THEN Some(val.f.mant * Pow2(val.f.exp))
         ELSE Some(val.f.mant \div Pow2(0 - val.f.exp))

\* Value::as_i64: Some only for an integer Number that fits an i64
as_i64(val) ==
    IF val.t # "Number" THEN None
    ELSE IF val.n = "PosInt"
         THEN IF FitsI64(val.u) THEN Some(LimbsToInt(val.u)) ELSE None
         ELSE IF val.n = "NegInt" THEN Some(val.v)
         ELSE None

\* Value::as_f64: Some for every Number
as_f64(val) ==
    IF val.t # "Number" THEN None
    ELSE IF val.n = "PosInt" THEN Some(F64OfU64(val.u, 0))
    ELSE IF val.n = "NegInt" THEN Some(F64OfNeg(val.v))
    ELSE Some(val.f)

\* Value::as_str
as_str(val) == IF val.t = "String" THEN Some(val.s) ELSE None

\* Map<String, Value>::get
MapGet(m, key) == IF key \in DOMAIN m THEN Some(m[key]) ELSE None

\* Map<String, Value>: Index<&str>, as in obj["score"]: panics when the key is absent
MapIndex(m, key) == IF key \in DOMAIN m THEN Ok(m[key]) ELSE Panic("no entry found for key")

-----------------------------------------------------------------------------
(* serde_json::from_str over the reply contents the model draws from.      *)
(* JsonDocuments lists the contents that are JSON documents, each with the *)
(* Value it parses to; every other content is not JSON.                    *)

JsonDocuments ==
    { <<"{}", JObject(<<>>)>>,
      <<"[\"A\"]", JArray(<<JString(<<"A">>)>>)>>,
      <<"\"A\"", JString(<<"A">>)>>,
      <<"{\"classification\": \"A\"}", JObject([classification |-> JString(<<"A">>)])>>,
      <<"{\"classification\": \"B\"}", JObject([classification |-> JString(<<"B">>)])>>,
      <<"{\"classification\": \"C\"}", JObject([classification |-> JString(<<"C">>)])>>,
      <<"{\"classification\": \"AA\"}", JObject([classification |-> JString(<<"A", "A">>)])>>,
      <<"{\"classification\": \"\"}", JObject([classification |-> JString(<<>>)])>>,
      <<"{\"classification\": 1}", JObject([classification |-> PosInt(USize(1))])>>,
      <<"{\"classification\": null}", JObject([classification |-> JNull])>>,
      <<"{\"score\": 4}", JObject([score |-> PosInt(USize(4))])>>,
      <<"{\"score\": 0}", JObject([score |-> PosInt(USize(0))])>>,
      <<"{\"score\": 7}", JObject([score |-> PosInt(USize(7))])>>,
      <<"{\"score\": -1}", JObject([score |-> NegInt(0 - 1)])>>,
      <<"{\"score\": 4.5}", JObject([score |-> Float(F64(9, 0 - 1))])>>,
      <<"{\"score\": 4.0}", JObject([score |-> Float(F64(1, 2))])>>,
      <<"{\"score\": 9223372036854775808}",
        JObject([score |-> PosInt(<<0, 0, 0, LimbBase \div 2>>)])>>,
      <<"{\"score\": \"4\"}", JObject([score |-> JString(<<"4">>)])>>,
      <<"{\"score\": null}", JObject([score |-> JNull])>>,
      <<"{\"street\": \"123 main st\", \"number\": 123}",
        JObject([street |-> JString("123 main st"), number |-> PosInt(USize(123))])>>,
      <<"{\"street\": \"x\"}", JObject([street |-> JString("x")])>>,
      <<"{\"number\": 123}", JObject([number |-> PosInt(USize(123))])>>,
      <<"{\"street\": \"x\", \"number\": \"y\"}",
        JObject([street |-> JString("x"), number |-> JString("y")])>>,
      <<"{\"street\": \"x\", \"number\": 1.5}",
        JObject([street |-> JString("x"), number |-> Float(F64(3, 0 - 1))])>>,
      <<"{\"street\": 5, \"number\": 1}",
        JObject([street |-> PosInt(USize(5)), number |-> PosInt(USize(1))])>>,
      <<"{\"street\": \"x\", \"number\": 1, \"zip\": \"z\"}",
        JObject([street |-> JString("x"), number |-> PosInt(USize(1)), zip |-> JString("z")])>> }

\* contents that are not JSON at all
PlainContents == {"hello", "", "{\"classification\": \"A\""}

\* the reply contents drawn from
Contents == {d[1] : d \in JsonDocuments} \cup PlainContents

\* serde_json::from_str::<Value>(text)
FromStrValue(text) ==
    IF \E d \in JsonDocuments : d[1] = text
    THEN Ok((CHOOSE d \in JsonDocuments : d[1] = text)[2])
    ELSE Err("expected value")

\* serde_json::from_str::<Map<String, Value>>(text): a document that is an object
FromStrMap(text) ==
    LET v == FromStrValue(text)
    IN  IF v.t = "Err" THEN v
        ELSE IF v.v.t = "Object" THEN Ok(v.v.m)
        ELSE Err("invalid type, expected a map")

-----------------------------------------------------------------------------
(* Messages and the wire types, lib.rs 59-190                              *)

\* lib.rs 94-99
Message(role, content, obj) == [role |-> role, content |-> content, obj |-> obj]

\* lib.rs 101-105
OpenAIMessage(role, content) == [role |-> role, content |-> content]

\* lib.rs 79-92: impl Deserialize for MessageRole, applied to a Value
DeserializeMessageRole(v) ==
    IF v.t # "String" THEN Err("invalid type, expected a string")
    ELSE IF v.s = "system" THEN Ok("System")
    ELSE IF v.s = "assistant" THEN Ok("Assistant")
    ELSE IF v.s = "user" THEN Ok("User")
    ELSE Err("invalid role")

\* serde_json::from_value::<String>
DeserializeString(v) ==
    IF v.t = "String" THEN Ok(v.s) ELSE Err("invalid type, expected a string")

\* Result::unwrap
Unwrap(r) == IF r.t = "Ok" THEN r ELSE Panic("called Result::unwrap() on an Err value")

\* lib.rs 107-124: impl Deserialize for OpenAIMessage
DeserializeOpenAIMessage(v) ==
    IF v.t # "Object" THEN Err("invalid type, expected a map")
    ELSE IF MapGet(v.m, "role") = None THEN Err("role not found")
    ELSE IF MapGet(v.m, "content") = None THEN Err("content not found")
    ELSE LET role == Unwrap(DeserializeMessageRole(v.m["role"]))
             content == Unwrap(DeserializeString(v.m["content"]))
         IN  IF role.t = "Panic" THEN role
             ELSE IF content.t = "Panic" THEN content
             ELSE Ok(OpenAIMessage(role.v, content.v))

\* lib.rs 187-190: derived Deserialize for Choice
DeserializeChoice(v) ==
    IF v.t # "Object" THEN Err("invalid type, expected struct Choice")
    ELSE IF "message" \notin DOMAIN v.m THEN Err("missing field message")
    ELSE LET m == DeserializeOpenAIMessage(v.m["message"])
         IN  IF m.t = "Ok" THEN Ok([message |-> m.v]) ELSE m

RECURSIVE DeserializeChoices(_)
\* Vec<Choice>: the elements in order, stopping at the first that fails
DeserializeChoices(a) ==
    IF a = <<>> THEN Ok(<<>>)
    ELSE LET first == DeserializeChoice(Head(a))
         IN  IF first.t # "Ok" THEN first
             ELSE LET rest == DeserializeChoices(Tail(a))
                  IN  IF rest.t # "Ok" THEN rest ELSE Ok(<<first.v>> \o rest.v)

\* lib.rs 182-185: derived Deserialize for ChatResponse
DeserializeChatResponse(v) ==
    IF v.t # "Object" THEN Err("invalid type, expected struct ChatResponse")
    ELSE IF "choices" \notin DOMAIN v.m THEN Err("missing field choices")
    ELSE IF v.m["choices"].t # "Array" THEN Err("invalid type, expected a sequence")
    ELSE LET cs == DeserializeChoices(v.m["choices"].a)
         IN  IF cs.t = "Ok" THEN Ok([choices |-> cs.v]) ELSE cs

\* Response bodies: one that cannot be read, raw text that is not JSON, a JSON document
Unreadable == [t |-> "Unreadable"]

TextBody(text) == [t |-> "Text", text |-> text]

JsonBody(v) == [t |-> "Json", v |-> v]

\* response.json::<ChatResponse>()
ResponseJson(body) ==
    IF body.t = "Unreadable" THEN Err("error decoding response body")
    ELSE IF body.t = "Text" THEN Err("expected value")
    ELSE DeserializeChatResponse(body.v)

\* response.text().await.unwrap()
ResponseTextUnwrap(body) ==
    IF body.t = "Unreadable" THEN Panic("called Result::unwrap() on an Err value")
    ELSE Ok(body.text)

\* What the endpoint does with a request: the request fails to be sent, or a
\* response with a status and a body arrives
NetworkError == [k |-> "NetworkError"]

Response(status, body) == [k |-> "Response", status |-> status, body |-> body]

StatusOK == 200

\* ReplyFromChoice as it would be were the content parsed whatever force_json
\* is, and a content that does not parse passed on with no object
ReplyFromChoiceLenient(force_json, message) ==
    LET obj == FromStrMap(message.content)
    IN  IF obj.t = "Ok"
        THEN Ok(Message(message.role, message.content, Some(obj.v)))
        ELSE Ok(Message(message.role, message.content, None))

\* lib.rs 249-270: the reply built from the first candidate's message
ReplyFromChoice(force_json, message) ==
    IF force_json
    THEN LET obj == FromStrMap(message.content)
         IN  IF obj.t = "Ok"
             THEN Ok(Message(message.role, message.content, Some(obj.v)))
             ELSE Err(ChatError(<<Lit("Failed to parse response")>>))
    ELSE Ok(Message(message.role, message.content, None))

\* lib.rs 235-290: generate_message from the completion of send() to its return
GenerateMessageReturn(force_json, outcome) ==
    IF outcome.k = "NetworkError"
    THEN Err(ChatError(<<CausePiece("error sending request")>>))
    ELSE IF outcome.status # StatusOK
    THEN LET text == ResponseTextUnwrap(outcome.body)
         IN  IF text.t = "Panic" THEN text
             ELSE Err(ChatError(<<StatusPiece(outcome.status), Lit(": "), BodyPiece(text.v)>>))
    ELSE LET chat_response == ResponseJson(outcome.body)
         IN  IF chat_response.t = "Panic" THEN chat_response
             ELSE IF chat_response.t = "Err"
             THEN Err(ChatError(<<Lit("Failed to parse response, error: "),
                                  CausePiece(chat_response.e)>>))
             ELSE IF chat_response.v.choices = <<>>
             THEN Err(ChatError(<<Lit("Choice not found in response")>>))
             ELSE ReplyFromChoice(force_json, Head(chat_response.v.choices).message)

-----------------------------------------------------------------------------
(* The decoding each primitive applies to what generate_message returned.   *)
(* A panic inside generate_message unwinds through the primitive.          *)

\* HashMap<String, usize>::insert on a set of <<label, index>> pairs
MapInsert(m, label, idx) == {e \in m : e[1] # label} \cup {<<label, idx>>}

\* HashMap<String, usize>::get
LookupGet(m, label) ==
    IF \E e \in m : e[1] = label
    THEN Some((CHOOSE e \in m : e[1] = label)[2])
    ELSE None

\* lib.rs 322-346
ClassifyReturn(lookup_table, r) ==
    IF r.t = "Panic" THEN r
    ELSE IF r.t = "Ok"
    THEN IF r.v.obj.t = "Some"
         THEN LET field == MapIndex(r.v.obj.v, "classification")
              IN  IF field.t = "Panic" THEN field
                  ELSE LET classification == as_str(field.v)
                       IN  IF classification.t = "Some"
                           THEN LET choice_index == LookupGet(lookup_table, classification.v)
                                IN  IF choice_index.t = "Some"
                                    THEN Ok(choice_index.v)
                                    ELSE Err(ClassifyError(<<Lit("Invalid classification: "),
                                                             LabelPiece(classification.v)>>))
                           ELSE Err(ClassifyError(<<Lit("Classification not found in response")>>))
         ELSE Err(ClassifyError(<<Lit("Object not found in response")>>))
    ELSE Err(ClassifyError(<<Lit("Failed to generate message")>>))

\* lib.rs 354-360: .map(|index| index == 0)
BinaryClassifyReturn(lookup_table, r) ==
    LET c == ClassifyReturn(lookup_table, r)
    IN  IF c.t = "Ok" THEN Ok(c.v = 0) ELSE c

\* GenerateTextReturn as it would be were the reply decoded as the structured
\* primitives decode theirs
GenerateTextReturnDecoding(r) ==
    IF r.t = "Panic" THEN r
    ELSE IF r.t = "Ok"
    THEN IF FromStrMap(r.v.content).t = "Ok" THEN Ok(r.v.content)
         ELSE Err(GenerateTextError(<<Lit("Object not found in response")>>))
    ELSE Err(GenerateTextError(<<Lit("Failed to generate message")>>))

\* lib.rs 384-390
GenerateTextReturn(r) ==
    IF r.t = "Panic" THEN r
    ELSE IF r.t = "Ok" THEN Ok(r.v.content)
    ELSE Err(GenerateTextError(<<Lit("Failed to generate message")>>))

\* lib.rs 420-438
ScoreFloatReturn(r) ==
    IF r.t = "Panic" THEN r
    ELSE IF r.t = "Ok"
    THEN IF r.v.obj.t = "Some"
         THEN LET field == MapIndex(r.v.obj.v, "score")
              IN  IF field.t = "Panic" THEN field
                  ELSE LET score == as_f64(field.v)
                       IN  IF score.t = "Some" THEN Ok(score.v)
                           ELSE Err(ScoreFloatError(<<Lit("Score not found in response")>>))
         ELSE Err(ScoreFloatError(<<Lit("Object not found in response")>>))
    ELSE Err(ScoreFloatError(<<Lit("Failed to generate message")>>))

\* lib.rs 468-486
ScoreIntReturn(r) ==
    IF r.t = "Panic" THEN r
    ELSE IF r.t = "Ok"
    THEN IF r.v.obj.t = "Some"
         THEN LET field == MapIndex(r.v.obj.v, "score")
              IN  IF field.t = "Panic" THEN field
                  ELSE LET score == as_i64(field.v)
                       IN  IF score.t = "Some" THEN Ok(score.v)
                           ELSE Err(ScoreIntError(<<Lit("Score not found in response")>>))
         ELSE Err(ScoreIntError(<<Lit("Object not found in response")>>))
    ELSE Err(ScoreIntError(<<Lit("Failed to generate message")>>))

\* The target type of parse: struct Address { street: String, number: i64 } of
\* main.rs 7-11 with its derived Deserialize.  The keys of a Map come in sorted
\* order; an unknown key is skipped; the required fields are checked afterwards
\* in declaration order.
DeserializeI64(v) ==
    IF v.t # "Number" THEN Err("invalid type, expected i64")
    ELSE IF v.n = "Float" THEN Err("invalid type: floating point, expected i64")
    ELSE IF v.n = "PosInt"
         THEN IF FitsI64(v.u) THEN Ok(LimbsToInt(v.u)) ELSE Err("invalid value, expected i64")
         ELSE Ok(v.v)

DeserializeAddress(m) ==
    LET number == IF "number" \in DOMAIN m THEN DeserializeI64(m["number"]) ELSE None
        street == IF "street" \in DOMAIN m THEN DeserializeString(m["street"]) ELSE None
    IN  IF number.t = "Err" THEN number
        ELSE IF street.t = "Err" THEN street
        ELSE IF street.t = "None" THEN Err("missing field street")
        ELSE IF number.t = "None" THEN Err("missing field number")
        ELSE Ok([street |-> street.v, number |-> number.v])

\* serde_json::to_string(&json_response): the canonical text of the object
ToJsonString(m) == [text_of |-> m]

\* serde_json::from_str::<T>(&json_str) for T = Address
FromStrAddress(json_str) == DeserializeAddress(json_str.text_of)

\* lib.rs 544-555: the cause of a failure is replaced by fmt::Error
json_response_to_obj(json_response) ==
    LET json_str == ToJsonString(json_response)
        obj == FromStrAddress(json_str)
    IN  IF obj.t = "Ok" THEN Ok(obj.v) ELSE Err("fmt::Error")

\* lib.rs 514-535
ParseReturn(r) ==
    IF r.t = "Panic" THEN r
    ELSE IF r.t = "Ok"
    THEN IF r.v.obj.t = "Some"
         THEN LET parsed_obj == json_response_to_obj(r.v.obj.v)
              IN  IF parsed_obj.t = "Ok" THEN Ok(parsed_obj.v)
                  ELSE Err(ParseError(<<Lit("Failed to parse response")>>))
         ELSE Err(ParseError(<<Lit("Object not found in response")>>))
    ELSE Err(ParseError(ChatErrorDisplay(r.e)))

-----------------------------------------------------------------------------
(* Prompts and the request, lib.rs 126-160, 201-234, 301-321, 368-383,     *)
(* 400-419, 448-467, 493-513.  A content is the sequence of the pieces     *)
(* format! puts together.                                                  *)

IntPiece(n) == [int |-> n]

FloatPiece(f) == [float |-> f]

SchemaPiece(T) == [schema_of |-> T]

\* lib.rs 136-159: GenerateMessageOptionsBuilder::new().temperature(0.0).force_json(b).build()
BuildOptions(force_json) == [temperature |-> F64(0, 0), force_json |-> force_json]

RECURSIVE Join(_, _)
\* Vec<String>::join(sep)
Join(lines, sep) ==
    IF lines = <<>> THEN <<>>
    ELSE IF Len(lines) = 1 THEN Head(lines)
    ELSE Head(lines) \o <<sep>> \o Join(Tail(lines), sep)

\* lib.rs 562: format!("{}. {}", label, choice)
ChoiceLine(label, choice) == <<LabelPiece(label), Lit(". "), Lit(choice)>>

\* lib.rs 302-317
ClassifyMessages(instruction, text, choices_display) ==
    << Message("System", <<Lit("Classify the following text with the provided instruction and choices. To classify, provide the key of the choice:\n{\"classification\": string}\n\nFor example, if the correct choice is 'Z. description of choice Z', then provide 'Z' as the classification as valid JSON:\n{\"classification\": \"Z\"}")>>, None),
       Message("User",
               <<Lit("Instruction:\n"), Lit(instruction), Lit("\n\nText:\n"), Lit(text),
                 Lit("\n\nChoices:\n")>> \o choices_display \o <<Lit("\n\nValid JSON:")>>,
               None) >>

\* lib.rs 368-379
GenerateTextMessages(instruction, text) ==
    << Message("System", <<Lit(instruction)>>, None),
       Message("User", <<Lit(text)>>, None) >>

\* lib.rs 400-415
ScoreFloatMessages(instruction, text, min_bound, max_bound) ==
    << Message("System", <<Lit("Score the following text with the provided instruction and range as a float value as valid JSON:\n{\"score\": float}")>>, None),
       Message("User",
               <<Lit("Instruction:\n"), Lit(instruction), Lit("\n\nText:\n"), Lit(text),
                 Lit("\n\nRange:\n["), FloatPiece(min_bound), Lit(", "), FloatPiece(max_bound),
                 Lit("]\n\nValid JSON:")>>,
               None) >>

\* lib.rs 448-463
ScoreIntMessages(instruction, text, min_bound, max_bound) ==
    << Message("System", <<Lit("Score the following text with the provided instruction and range as an integer value as valid JSON:\n{\"score\": int}")>>, None),
       Message("User",
               <<Lit("Instruction:\n"), Lit(instruction), Lit("\n\nText:\n"), Lit(text),
                 Lit("\n\nRange:\n["), IntPiece(min_bound), Lit(", "), IntPiece(max_bound),
                 Lit("]\n\nValid JSON:")>>,
               None) >>

\* lib.rs 493-509, 539-542
ParseMessages(text, T) ==
    << Message("System", <<Lit("Parse the following text with the provided schema.")>>, None),
       Message("User",
               <<Lit("Text:\n"), Lit(text), Lit("\n\nSchema:\n"), SchemaPiece(T),
                 Lit("\n\nValid JSON:")>>,
               None) >>

\* lib.rs 208-227: the body of the request
ChatRequestBody(m, messages, opts) ==
    [ model |-> m,
      messages |-> [k \in DOMAIN messages |->
                        OpenAIMessage(messages[k].role, messages[k].content)],
      temperature |-> opts.temperature,
      response_format |-> [type |-> IF opts.force_json THEN "json_object" ELSE "text"] ]

\* Post as it would be were the request sent again after the first send
PostTwice(messages, opts) ==
    /\ requests' = Append(Append(requests, ChatRequestBody(model, messages, opts)),
                          ChatRequestBody(model, messages, opts))
    /\ options' = opts
    /\ pc' = "await"

\* lib.rs 228-234: the one post of generate_message, up to its await
Post(messages, opts) ==
    /\ requests' = Append(requests, ChatRequestBody(model, messages, opts))
    /\ options' = opts
    /\ pc' = "await"

-----------------------------------------------------------------------------
(* Inputs                                                                  *)

\* the longest choice list drawn
MaxChoices == 2

\* iterations of the index_to_alpha loop followed in one invocation
MaxIter == 16

\* index_to_alpha alone is applied to 0..MaxIndex and to BoundaryIndexes
MaxIndex == 80

BoundaryIndexes == {701, 702, 703, 727, 728, 1377, 1378}

Instructions == {"Is this spam?"}

Texts == {"hello", "{\"a\": 1}"}

ChoiceStrings == {"yes", "no"}

ChoiceLists == UNION {[1..n -> ChoiceStrings] : n \in 0..MaxChoices}

IntBounds == {<<1, 5>>, <<0, 0>>}

FloatBounds == {<<F64(0, 0), F64(1, 0)>>}

AssistantMessage(content) ==
    JObject([role |-> JString("assistant"), content |-> JString(content)])

Candidates(a) == JsonBody(JObject([choices |-> JArray(a)]))

\* a candidate list whose first message has the given role and content Values
FirstCandidate(role, content) ==
    Candidates(<<JObject([message |-> JObject([role |-> role, content |-> content])])>>)

Outcomes ==
    {NetworkError,
     Response(500, TextBody("server error")),
     Response(500, Unreadable),
     Response(429, TextBody("")),
     Response(201, TextBody("created")),
     Response(StatusOK, Unreadable),
     Response(StatusOK, TextBody("<html>")),
     Response(StatusOK, JsonBody(JObject(<<>>))),
     Response(StatusOK, JsonBody(JArray(<<>>))),
     Response(StatusOK, JsonBody(JObject([choices |-> JNull]))),
     Response(StatusOK, Candidates(<<>>)),
     Response(StatusOK, Candidates(<<JNull>>)),
     Response(StatusOK, Candidates(<<JObject(<<>>)>>)),
     Response(StatusOK, Candidates(<<JObject([message |-> JNull])>>)),
     Response(StatusOK, Candidates(<<JObject([message |-> JObject([content |-> JString("hello")])])>>)),
     Response(StatusOK, Candidates(<<JObject([message |-> JObject([role |-> JString("assistant")])])>>)),
     Response(StatusOK, FirstCandidate(JString("tool"), JString("hello"))),
     Response(StatusOK, FirstCandidate(PosInt(USize(7)), JString("hello"))),
     Response(StatusOK, FirstCandidate(JString("assistant"), JNull)),
     Response(StatusOK, FirstCandidate(JString("user"), JString("{\"score\": 4}"))),
     Response(StatusOK, FirstCandidate(JString("system"), JString("hello"))),
     Response(StatusOK, Candidates(<<JObject([message |-> AssistantMessage("{\"score\": 4}")]),
                                     JObject([message |-> AssistantMessage("{\"score\": 7}")])>>)),
     Response(StatusOK, Candidates(<<JObject([message |-> AssistantMessage("{\"score\": 4}")]),
                                     JObject([message |-> JObject([role |-> JString("tool"),
                                                                   content |-> JString("x")])])>>)),
     Response(StatusOK, Candidates(<<JObject([message |-> JObject([content |-> JString("x")])]),
                                     JObject([message |-> JObject([role |-> JString("tool"),
                                                                   content |-> JString("x")])])>>))}
    \cup {Response(StatusOK, FirstCandidate(JString("assistant"), JString(c))) : c \in Contents}

\* the calls made on one facade
NumCalls == 2

CallIds == 1..NumCalls

-----------------------------------------------------------------------------
(* The call                                                                *)

\* The locals of the call in hand: the state of its future (lib.rs 295-536,
\* 201-291, 557-578)
Locals ==
    [ op |-> op, args |-> args, backend |-> backend, pc |-> pc, choices |-> choices,
      i |-> i, choices_displays |-> choices_displays, decode_map |-> decode_map,
      index |-> index, alpha |-> alpha, iters |-> iters, options |-> options,
      requests |-> requests, reply |-> reply, result |-> result ]

\* the locals of a call not made yet
IdleLocals ==
    [ op |-> "none", args |-> <<>>, backend |-> NetworkError, pc |-> "idle",
      choices |-> <<>>, i |-> 0, choices_displays |-> <<>>, decode_map |-> {},
      index |-> USizeZero, alpha |-> <<>>, iters |-> 0, options |-> BuildOptions(FALSE),
      requests |-> <<>>, reply |-> Pending, result |-> Pending ]

Init ==
    /\ overflow_checks \in BOOLEAN
    /\ model = "gpt-4o"
    /\ api_key = "sk-test"
    /\ op = "none"
    /\ args = <<>>
    /\ backend = NetworkError
    /\ pc = "idle"
    /\ choices = <<>>
    /\ i = 0
    /\ choices_displays = <<>>
    /\ decode_map = {}
    /\ index = USizeZero
    /\ alpha = <<>>
    /\ iters = 0
    /\ options = BuildOptions(FALSE)
    /\ requests = <<>>
    /\ reply = Pending
    /\ result = Pending
    /\ cur = 1
    /\ parked = [c \in CallIds |-> IdleLocals]

\* lib.rs 557-560: display_choices up to its first index_to_alpha, or, with no
\* choice at all, through to the post of classify
EnterDisplayChoices(instruction, text, chs) ==
    /\ choices' = chs
    /\ i' = 0
    /\ choices_displays' = <<>>
    /\ decode_map' = {}
    /\ alpha' = <<>>
    /\ iters' = 0
    /\ index' = USizeZero
    /\ IF chs = <<>>
       THEN Post(ClassifyMessages(instruction, text, Join(<<>>, Lit("\n"))), BuildOptions(TRUE))
       ELSE /\ pc' = "index_to_alpha"
            /\ UNCHANGED <<requests, options>>

\* lib.rs 295-321
CallClassify ==
    \E instruction \in Instructions, text \in Texts, chs \in ChoiceLists, o \in Outcomes :
        /\ pc = "idle"
        /\ op' = "classify"
        /\ args' = [instruction |-> instruction, text |-> text, choices |-> chs]
        /\ backend' = o
        /\ EnterDisplayChoices(instruction, text, chs)
        /\ UNCHANGED <<overflow_checks, model, api_key, cur, parked, reply, result>>

\* lib.rs 349-358
CallBinaryClassify ==
    \E instruction \in Instructions, text \in Texts, o \in Outcomes :
        /\ pc = "idle"
        /\ op' = "binary_classify"
        /\ args' = [instruction |-> instruction, text |-> text]
        /\ backend' = o
        /\ EnterDisplayChoices(instruction, text, <<"true", "false">>)
        /\ UNCHANGED <<overflow_checks, model, api_key, cur, parked, reply, result>>

\* lib.rs 363-384
CallGenerateText ==
    \E instruction \in Instructions, text \in Texts, o \in Outcomes :
        /\ pc = "idle"
        /\ op' = "generate_text"
        /\ args' = [instruction |-> instruction, text |-> text]
        /\ backend' = o
        /\ Post(GenerateTextMessages(instruction, text), BuildOptions(FALSE))
        /\ UNCHANGED <<overflow_checks, model, api_key, cur, parked, choices, i, choices_displays,
                       decode_map, index, alpha, iters, reply, result>>

\* lib.rs 393-420
CallScoreFloat ==
    \E instruction \in Instructions, text \in Texts, b \in FloatBounds, o \in Outcomes :
        /\ pc = "idle"
        /\ op' = "score_float"
        /\ args' = [instruction |-> instruction, text |-> text,
                    min_bound |-> b[1], max_bound |-> b[2]]
        /\ backend' = o
        /\ Post(ScoreFloatMessages(instruction, text, b[1], b[2]), BuildOptions(TRUE))
        /\ UNCHANGED <<overflow_checks, model, api_key, cur, parked, choices, i, choices_displays,
                       decode_map, index, alpha, iters, reply, result>>

\* lib.rs 441-468
CallScoreInt ==
    \E instruction \in Instructions, text \in Texts, b \in IntBounds, o \in Outcomes :
        /\ pc = "idle"
        /\ op' = "score_int"
        /\ args' = [instruction |-> instruction, text |-> text,
                    min_bound |-> b[1], max_bound |-> b[2]]
        /\ backend' = o
        /\ Post(ScoreIntMessages(instruction, text, b[1], b[2]), BuildOptions(TRUE))
        /\ UNCHANGED <<overflow_checks, model, api_key, cur, parked, choices, i, choices_displays,
                       decode_map, index, alpha, iters, reply, result>>

\* lib.rs 489-514, with T = Address
CallParse ==
    \E text \in Texts, o \in Outcomes :
        /\ pc = "idle"
        /\ op' = "parse"
        /\ args' = [text |-> text, T |-> "Address"]
        /\ backend' = o
        /\ Post(ParseMessages(text, "Address"), BuildOptions(TRUE))
        /\ UNCHANGED <<overflow_checks, model, api_key, cur, parked, choices, i, choices_displays,
                       decode_map, index, alpha, iters, reply, result>>

\* lib.rs 570-576: one iteration of the loop of index_to_alpha.  When the loop
\* breaks, the label returns to display_choices (lib.rs 561-565), which takes the
\* next choice or, after the last, returns to classify, which posts (lib.rs 301-321).
IndexToAlphaIter ==
    /\ pc = "index_to_alpha"
    /\ iters < MaxIter
    /\ LET grown == Prepend(Letter(USizeMod26(index)), alpha)
           next == SubOne(USizeDiv26(index), overflow_checks)
       IN  IF next.t = "Panic"
           THEN /\ pc' = "done"
                /\ result' = Panic("attempt to subtract with overflow")
                /\ alpha' = grown
                /\ iters' = iters + 1
                /\ UNCHANGED <<index, i, choices_displays, decode_map, requests, options>>
           ELSE IF next.v # USizeZero
           THEN /\ index' = next.v
                /\ alpha' = grown
                /\ iters' = iters + 1
                /\ UNCHANGED <<pc, result, i, choices_displays, decode_map, requests, options>>
           ELSE IF op = "index_to_alpha"
           THEN /\ pc' = "done"
                /\ result' = Ok(grown)
                /\ index' = next.v
                /\ alpha' = grown
                /\ iters' = iters + 1
                /\ UNCHANGED <<i, choices_displays, decode_map, requests, options>>
           ELSE LET displays == Append(choices_displays, ChoiceLine(grown, choices[i + 1]))
                    table == MapInsert(decode_map, grown, i)
                IN  /\ choices_displays' = displays
                    /\ decode_map' = table
                    /\ i' = i + 1
                    /\ result' = result
                    /\ IF i + 1 < Len(choices)
                       THEN /\ index' = USize(i + 1)
                            /\ alpha' = <<>>
                            /\ iters' = 0
                            /\ UNCHANGED <<pc, requests, options>>
                       ELSE /\ index' = next.v
                            /\ alpha' = grown
                            /\ iters' = iters + 1
                            /\ Post(ClassifyMessages(args.instruction, args.text,
                                                     Join(displays, Lit("\n"))),
                                    BuildOptions(TRUE))
    /\ UNCHANGED <<overflow_checks, model, api_key, cur, parked, op, args, backend, choices, reply>>

\* What the primitive returns once generate_message has returned r
PrimitiveReturn(o, lookup_table, r) ==
    CASE o = "classify" -> ClassifyReturn(lookup_table, r)
      [] o = "binary_classify" -> BinaryClassifyReturn(lookup_table, r)
      [] o = "generate_text" -> GenerateTextReturn(r)
      [] o = "score_float" -> ScoreFloatReturn(r)
      [] o = "score_int" -> ScoreIntReturn(r)
      [] o = "parse" -> ParseReturn(r)

\* The request completes: generate_message returns (lib.rs 235-290) and the
\* primitive decodes what it returned
Resume ==
    /\ pc = "await"
    /\ LET r == GenerateMessageReturn(options.force_json, backend)
       IN  /\ reply' = r
           /\ result' = PrimitiveReturn(op, decode_map, r)
    /\ pc' = "done"
    /\ UNCHANGED <<overflow_checks, model, api_key, cur, parked, op, args, backend, choices, i,
                   choices_displays, decode_map, index, alpha, iters, options, requests>>

Next ==
    \/ CallClassify
    \/ CallBinaryClassify
    \/ CallGenerateText
    \/ CallScoreFloat
    \/ CallScoreInt
    \/ CallParse
    \/ IndexToAlphaIter
    \/ Resume

Spec == Init /\ [][Next]_vars

-----------------------------------------------------------------------------
(* index_to_alpha alone, applied to one index                              *)

InitAlpha ==
    /\ overflow_checks \in BOOLEAN
    /\ model = "gpt-4o"
    /\ api_key = "sk-test"
    /\ op = "index_to_alpha"
    /\ \E n \in (0..MaxIndex) \cup BoundaryIndexes :
           /\ args = [index |-> n]
           /\ index = USize(n)
    /\ backend = NetworkError
    /\ pc = "index_to_alpha"
    /\ choices = <<>>
    /\ i = 0
    /\ choices_displays = <<>>
    /\ decode_map = {}
    /\ alpha = <<>>
    /\ iters = 0
    /\ options = BuildOptions(FALSE)
    /\ requests = <<>>
    /\ reply = Pending
    /\ result = Pending
    /\ cur = 1
    /\ parked = [c \in CallIds |-> IdleLocals]

NextAlpha == IndexToAlphaIter

SpecAlpha == InitAlpha /\ [][NextAlpha]_vars

-----------------------------------------------------------------------------
(* Several calls on one facade.  Each call is a future with its own locals; *)
(* the executor runs one of them at a time and may leave it for another     *)
(* after any step.  The facade (model, api_key) is all they share.          *)

\* the locals of call c as its future holds them while another call runs
ResumedSharingOptions(c) == [parked[c] EXCEPT !.options = options]

Resumed(c) == parked[c]

\* The executor leaves the call in hand, once made, and goes on with call c,
\* which is yet to be made or is under way: a future that has completed is
\* not polled again.
Switch(c) ==
    /\ c \in CallIds \ {cur}
    /\ pc # "idle"
    /\ parked[c].pc # "done"
    /\ cur' = c
    /\ parked' = [parked EXCEPT ![cur] = Locals, ![c] = IdleLocals]
    /\ op' = Resumed(c).op
    /\ args' = Resumed(c).args
    /\ backend' = Resumed(c).backend
    /\ pc' = Resumed(c).pc
    /\ choices' = Resumed(c).choices
    /\ i' = Resumed(c).i
    /\ choices_displays' = Resumed(c).choices_displays
    /\ decode_map' = Resumed(c).decode_map
    /\ index' = Resumed(c).index
    /\ alpha' = Resumed(c).alpha
    /\ iters' = Resumed(c).iters
    /\ options' = Resumed(c).options
    /\ requests' = Resumed(c).requests
    /\ reply' = Resumed(c).reply
    /\ result' = Resumed(c).result
    /\ UNCHANGED <<overflow_checks, model, api_key>>

\* the replies drawn from when several calls run
ConcOutcomes ==
    {Response(500, TextBody("server error")),
     Response(StatusOK, FirstCandidate(JString("assistant"), JString("hello"))),
     Response(StatusOK, FirstCandidate(JString("assistant"),
                                       JString("{\"classification\": \"A\"}")))}

\* The arguments drawn from when several calls run: one text, one range; the
\* structured primitives get the JSON reply, generate_text the two others.
ConcInputs ==
    /\ backend \in ConcOutcomes
    /\ args.text = "hello"
    /\ op = "generate_text" <=> backend # Response(StatusOK,
                                    FirstCandidate(JString("assistant"),
                                                   JString("{\"classification\": \"A\"}")))
    /\ op = "score_int" => args.min_bound = 1

ConcClassify == CallClassify /\ ConcInputs' /\ choices' = <<>>

ConcBinaryClassify == CallBinaryClassify /\ ConcInputs'

ConcGenerateText == CallGenerateText /\ ConcInputs'

ConcScoreFloat == CallScoreFloat /\ ConcInputs'

ConcScoreInt == CallScoreInt /\ ConcInputs'

ConcParse == CallParse /\ ConcInputs'

ConcSwitch == \E c \in CallIds : Switch(c)

NextConc ==
    \/ ConcClassify
    \/ ConcBinaryClassify
    \/ ConcGenerateText
    \/ ConcScoreFloat
    \/ ConcScoreInt
    \/ ConcParse
    \/ IndexToAlphaIter
    \/ Resume
    \/ ConcSwitch

SpecConc == Init /\ [][NextConc]_vars

-----------------------------------------------------------------------------
(* Where a call stands                                                     *)

Primitives == {"classify", "binary_classify", "generate_text", "score_float",
               "score_int", "parse"}

\* the call is over: it returned or a panic unwound out of it
Finished == pc = "done"

\* generate_message has returned to the primitive (or panicked)
BackendReturned == reply # Pending

\* the call panicked inside display_choices, before any request
AbortedInDisplayChoices == Finished /\ result.t = "Panic" /\ requests = <<>>

-----------------------------------------------------------------------------
(* Choice codec                                                            *)

RECURSIVE ColumnName(_)
\* the spreadsheet name of column n >= 1: A..Z, AA..AZ, BA.., a bijective base 26
ColumnName(n) ==
    IF n <= 26 THEN <<Letter(n - 1)>>
    ELSE ColumnName((n - 1) \div 26) \o <<Letter((n - 1) % 26)>>

\* C1: for every choice list of 1..100 choices, display_choices completes, and
\* the label it produced for each position i looks up to i in the map it
\* returns, so that the map has as many keys as there are choices.
C1_RoundTrip ==
    (op \in {"classify", "binary_classify"} /\ Len(choices) >= 1) =>
        /\ ~AbortedInDisplayChoices
        /\ pc \in {"await", "done"} =>
              /\ Len(choices_displays) = Len(choices)
              /\ \A k \in 1..Len(choices) :
                     LookupGet(decode_map, choices_displays[k][1].label) = Some(k - 1)
              /\ Cardinality({e[1] : e \in decode_map}) = Len(choices)

\* C2: index_to_alpha(i) is the spreadsheet name of column i + 1: 0 -> "A",
\* 25 -> "Z", 26 -> "AA", and so on.
C2_ColumnName ==
    (op = "index_to_alpha" /\ Finished) => result = Ok(ColumnName(args.index + 1))

-----------------------------------------------------------------------------
(* Decoding and errors of the primitives                                   *)

\* the backend of this call answers 200 with a first candidate whose content
\* is a JSON object, so that a structured request gets a decoded object
StructuredReply == GenerateMessageReturn(TRUE, backend).t = "Ok"

\* that decoded object
DecodedObject == GenerateMessageReturn(TRUE, backend).v.obj.v

\* C3: binary_classify, the backend succeeding with a structured reply whose
\* classification is the string s, returns Ok(true) iff s = "A", Ok(false) iff
\* s = "B", and an invalid-classification ClassifyError for every other s.
C3_BinaryClassify ==
    (/\ op = "binary_classify"
     /\ Finished
     /\ StructuredReply
     /\ "classification" \in DOMAIN DecodedObject
     /\ DecodedObject["classification"].t = "String") =>
        LET s == DecodedObject["classification"].s
        IN  result = IF s = <<"A">> THEN Ok(TRUE)
                     ELSE IF s = <<"B">> THEN Ok(FALSE)
                     ELSE Err(ClassifyError(<<Lit("Invalid classification: "), LabelPiece(s)>>))

\* the endpoint answers with a non-success status and a body
NonSuccess ==
    /\ backend.k = "Response"
    /\ backend.status \notin 200..299
    /\ backend.body.t = "Text"

\* C4: for every primitive, a non-success status (500 with body "server error")
\* gives the caller an error that contains both the status and the body text.
C4_StatusAndBody ==
    (op \in Primitives /\ Finished /\ NonSuccess) =>
        /\ result.t = "Err"
        /\ StatusPiece(backend.status) \in Range(result.e.message)
        /\ BodyPiece(backend.body.text) \in Range(result.e.message)

\* a Number whose value is a whole number, however it is written
Integral(v) == v.t = "Number" /\ (v.n \in {"PosInt", "NegInt"} \/ v.f.exp >= 0 \/ v.f.mant = 0)

\* a Number written as an integer (no fraction, no exponent) that fits an i64
I64Literal(v) == v.t = "Number" /\ (v.n = "NegInt" \/ (v.n = "PosInt" /\ FitsI64(v.u)))

\* the value of an I64Literal
LiteralValue(v) == IF v.n = "NegInt" THEN v.v ELSE LimbsToInt(v.u)

ScoreNotFound == Err(ScoreIntError(<<Lit("Score not found in response")>>))

\* score_int has ended and generate_message had returned a decoded object
ScoreIntDecoded == op = "score_int" /\ Finished /\ reply.t = "Ok"

\* C5 as stated: score_int returns Ok(v) exactly when the score field holds a
\* whole-number value v, and a ScoreIntError for a fractional one.
C5_IntegralValue ==
    ScoreIntDecoded =>
        LET m == reply.v.obj.v
        IN  result.t = "Ok" <=> ("score" \in DOMAIN m /\ Integral(m["score"]))

\* C5 amended: score_int returns Ok(v) exactly when the score field is a number
\* written as an integer that fits an i64, and then v is that integer unchanged,
\* inside the declared range or outside it; every number written with a
\* fraction or an exponent (4.5, and 4.0 too) and every integer above i64::MAX
\* gives the ScoreIntError "Score not found in response"; nothing is truncated
\* or rounded.
C5_ScoreInt ==
    ScoreIntDecoded =>
        LET m == reply.v.obj.v
        IN  /\ result.t = "Ok" <=> ("score" \in DOMAIN m /\ I64Literal(m["score"]))
            /\ result.t = "Ok" => result.v = LiteralValue(m["score"])
            /\ ("score" \in DOMAIN m /\ m["score"].t = "Number" /\ ~I64Literal(m["score"]))
                   => result = ScoreNotFound

\* score_int returned a score outside the declared range, unchanged
C5_Witness ==
    /\ ScoreIntDecoded
    /\ args.min_bound = 1
    /\ args.max_bound = 5
    /\ reply.v.content = "{\"score\": 7}"
    /\ result = Ok(7)

\* the expected field of the decoded object is absent, or is not of the
\* type the primitive reads
FieldUnusable(m, field, types) == field \notin DOMAIN m \/ m[field].t \notin types

\* C6: a decoded object without the expected field, or with it of the wrong
\* type, gives the caller the primitive's typed error as an Err value
\* ("Classification not found" for classify, "Score not found" for the scores);
\* the call neither aborts nor returns Ok.
C6_TypedError ==
    (Finished /\ reply.t = "Ok" /\ reply.v.obj.t = "Some") =>
        LET m == reply.v.obj.v
        IN  /\ (op = "classify" /\ FieldUnusable(m, "classification", {"String"})) =>
                   result = Err(ClassifyError(<<Lit("Classification not found in response")>>))
            /\ (op = "score_int" /\ FieldUnusable(m, "score", {"Number"})) =>
                   result = Err(ScoreIntError(<<Lit("Score not found in response")>>))
            /\ (op = "score_float" /\ FieldUnusable(m, "score", {"Number"})) =>
                   result = Err(ScoreFloatError(<<Lit("Score not found in response")>>))

\* C7: when the decoded object does not deserialize against the target type,
\* parse returns a ParseError that carries the cause of the failure.
C7_CauseWrapped ==
    (op = "parse" /\ Finished /\ reply.t = "Ok" /\ reply.v.obj.t = "Some"
       /\ DeserializeAddress(reply.v.obj.v).t = "Err") =>
        /\ result.t = "Err"
        /\ result.e.kind = "ParseError"
        /\ CausePiece(DeserializeAddress(reply.v.obj.v).e) \in Range(result.e.message)

-----------------------------------------------------------------------------
(* The chat backend                                                        *)

\* C8: a call that reaches the backend posts exactly one request over its whole
\* execution, whatever the outcome; a failure of the backend is returned to the
\* caller as the primitive's error and no second request follows it.
C8_OneRequest ==
    /\ Len(requests) <= 1
    /\ pc = "await" => Len(requests) = 1
    /\ BackendReturned => (Finished /\ Len(requests) = 1)
    /\ (BackendReturned /\ reply.t = "Err") => result.t = "Err"

\* a call ended on a failure of the backend, with its one request
C8_Witness ==
    /\ Finished
    /\ reply.t = "Err"
    /\ result.t = "Err"
    /\ Len(requests) = 1

\* the response deserialized and holds at least one candidate
HasCandidate ==
    /\ backend.k = "Response"
    /\ backend.status = StatusOK
    /\ ResponseJson(backend.body).t = "Ok"
    /\ ResponseJson(backend.body).v.choices # <<>>

\* the content of the first candidate
FirstContent == Head(ResponseJson(backend.body).v.choices).message.content

\* the content is a JSON document whose value is an object
IsJsonObject(content) == \E d \in JsonDocuments : d[1] = content /\ d[2].t = "Object"

\* C9: in a Message that generate_message returns, obj is present only if
\* force_json was set and the content of the first candidate parsed as a JSON
\* object, and is then that object; without force_json it is absent, valid JSON
\* or not; with force_json and a content that is no JSON object no Message is
\* returned: the call fails with the ChatError "Failed to parse response".
C9_DecodedObject ==
    /\ reply.t = "Ok" =>
          /\ reply.v.content = FirstContent
          /\ IF options.force_json
             THEN /\ IsJsonObject(reply.v.content)
                  /\ reply.v.obj.t = "Some"
                  /\ <<reply.v.content, JObject(reply.v.obj.v)>> \in JsonDocuments
             ELSE reply.v.obj = None
    /\ (BackendReturned /\ HasCandidate /\ options.force_json /\ ~IsJsonObject(FirstContent)) =>
          reply = Err(ChatError(<<Lit("Failed to parse response")>>))

\* generate_text got a reply whose content is a JSON object and no obj with it
C9_Witness ==
    /\ reply.t = "Ok"
    /\ ~options.force_json
    /\ IsJsonObject(reply.v.content)
    /\ reply.v.obj = None

\* C10: whatever the request comes to (network failure, any status and body, a
\* body that is no valid response, no candidate, a candidate with a role or a
\* content of the wrong kind), generate_message returns Ok(Message) or
\* Err(ChatError) and never aborts the call.
C10_Total ==
    (Finished /\ Len(requests) = 1) => reply.t \in {"Ok", "Err"}

-----------------------------------------------------------------------------
(* generate_text                                                           *)

\* C11: generate_text sends the instruction verbatim as the system message and
\* the text verbatim as the user message, with force_json = false; when the
\* backend succeeds it returns exactly the content of the first candidate,
\* JSON or not, with no decoded object; its only error is the failure of the
\* backend, never a decode error.
C11_GenerateText ==
    op = "generate_text" =>
        /\ pc \in {"await", "done"} =>
              /\ Len(requests) = 1
              /\ requests[1].messages =
                     <<OpenAIMessage("System", <<Lit(args.instruction)>>),
                       OpenAIMessage("User", <<Lit(args.text)>>)>>
              /\ requests[1].response_format.type = "text"
              /\ ~options.force_json
        /\ (Finished /\ reply.t = "Ok") =>
              /\ result = Ok(FirstContent)
              /\ reply.v.obj = None
        /\ (Finished /\ result.t = "Err") =>
              /\ reply.t = "Err"
              /\ result = Err(GenerateTextError(<<Lit("Failed to generate message")>>))

\* generate_text returned a content that is not JSON, as it came
C11_Witness ==
    /\ op = "generate_text"
    /\ Finished
    /\ args.text = "{\"a\": 1}"
    /\ result = Ok("hello")

-----------------------------------------------------------------------------
(* Termination of index_to_alpha                                           *)

\* the subtraction of lib.rs 572 went below zero: the build panicked, or the
\* index wrapped to usize::MAX (no index drawn is that large by itself)
Underflowed ==
    \/ result = Panic("attempt to subtract with overflow")
    \/ index = USizeMax

\* C13: index_to_alpha ends for every index, and its update
\* index = index / 26 - 1 never goes below zero on any iteration.
C13_NoUnderflow ==
    op = "index_to_alpha" => ~Underflowed

-----------------------------------------------------------------------------
(* Calls running together on one LLMPrimitives                             *)

\* the locals of call c, in hand or left by the executor
CallState(c) == IF c = cur THEN Locals ELSE parked[c]

\* the choice list call L was given (binary_classify passes its own, lib.rs 352)
OwnChoices(L) ==
    CASE L.op = "classify" -> L.args.choices
      [] L.op = "binary_classify" -> <<"true", "false">>
      [] OTHER -> <<>>

\* What call L returns when it runs alone with its arguments and its backend
\* reply. With a choice to display, display_choices asks index_to_alpha for
\* index 0, whose subtraction underflows: a panic in a checking build, and no
\* return at all in a wrapping one.
AloneResult(L) ==
    IF OwnChoices(L) # <<>>
    THEN Panic("attempt to subtract with overflow")
    ELSE PrimitiveReturn(L.op, {}, GenerateMessageReturn(L.op # "generate_text", L.backend))

====
